---- MODULE Spec2Model ----
(***************************************************************************)
(* Model of the Secure_chat relay server (src/Secure_chat-main/app.py):    *)
(* the participant registry (participants, sessions), the presence         *)
(* notifications, the envelope relay and the encrypted audit log.          *)
(*                                                                         *)
(* Strings the code inspects (usernames, public keys, error messages) are  *)
(* sequences of one-character strings, so that strip(), lower(), len(),    *)
(* sorted() and ", ".join() are computed as Python computes them.          *)
(* A Python dict whose iteration order the code depends on (participants)  *)
(* is a sequence of items in insertion order.                              *)
(***************************************************************************)
EXTENDS Integers, Sequences, FiniteSets, TLC

\* ------------------------------------------------------------------ bounds
\* Number of connection ids (request.sid values) the server may see.
NumSids == 2
\* Cap on the length of the audit log (logs grows without bound in the code).
MaxLogs == 1
\* Cap on the length of the audit log where the log itself is examined.
MaxAuditLogs == 2

Sids == 1..NumSids

\* ------------------------------------------------------------ Python strings
\* ord(c) for the characters that occur in the model.
Ord(c) ==
  CASE c = "\n" -> 10
    [] c = " " -> 32
    [] c = "," -> 44
    [] c = "A" -> 65
    [] c = "B" -> 66
    [] c = "a" -> 97
    [] c = "b" -> 98
    [] OTHER -> 127

\* str.isspace() for one character.
IsSpace(c) == c \in {" ", "\n"}

\* str.lower() for one character.
LowerChar(c) ==
  CASE c = "A" -> "a"
    [] c = "B" -> "b"
    [] OTHER -> c

\* str.lower()
Lower(s) == [i \in 1..Len(s) |-> LowerChar(s[i])]

RECURSIVE LStrip(_)
LStrip(s) ==
  IF s = <<>> THEN <<>>
  ELSE IF IsSpace(Head(s)) THEN LStrip(Tail(s)) ELSE s

RECURSIVE RStrip(_)
RStrip(s) ==
  IF s = <<>> THEN <<>>
  ELSE IF IsSpace(s[Len(s)]) THEN RStrip(SubSeq(s, 1, Len(s) - 1)) ELSE s

\* str.strip()
Strip(s) == RStrip(LStrip(s))

\* a < b for Python str: lexicographic by code point, a proper prefix is smaller.
RECURSIVE StrLess(_, _)
StrLess(a, b) ==
  IF b = <<>> THEN FALSE
  ELSE IF a = <<>> THEN TRUE
  ELSE IF Ord(Head(a)) < Ord(Head(b)) THEN TRUE
  ELSE IF Ord(Head(a)) > Ord(Head(b)) THEN FALSE
  ELSE StrLess(Tail(a), Tail(b))

\* Mutant of Sorted: descending order.
RECURSIVE Sorted_descending(_)
Sorted_descending(S) ==
  IF S = {} THEN <<>>
  ELSE LET m == CHOOSE x \in S : \A y \in S \ {x} : StrLess(y, x)
       IN  <<m>> \o Sorted_descending(S \ {m})

\* sorted(S) for a set S of str: ascending by code point.
RECURSIVE Sorted(_)
Sorted(S) ==
  IF S = {} THEN <<>>
  ELSE LET m == CHOOSE x \in S : \A y \in S \ {x} : StrLess(x, y)
       IN  <<m>> \o Sorted(S \ {m})

\* sep.join(names) with sep = ", "
RECURSIVE JoinComma(_)
JoinComma(names) ==
  IF names = <<>> THEN <<>>
  ELSE IF Len(names) = 1 THEN names[1]
  ELSE names[1] \o <<",", " ">> \o JoinComma(Tail(names))

\* --------------------------------------------------------------- fingerprint
\* Index of a character in the base64 alphabet, -1 for a character outside it
\* (base64.b64decode discards those when validate=False).
B64Index(c) ==
  CASE c = "D" -> 3
    [] c = "E" -> 4
    [] c = "G" -> 6
    [] c = "J" -> 9
    [] c = "Q" -> 16
    [] c = "R" -> 17
    [] c = "U" -> 20
    [] c = "V" -> 21
    [] OTHER -> -1

B64Filtered(k) == SelectSeq(k, LAMBDA c : B64Index(c) >= 0)

\* base64.b64decode raises binascii.Error (incorrect padding) unless the
\* alphabet characters come in groups of four.
B64Valid(k) == Len(B64Filtered(k)) % 4 = 0

RECURSIVE B64Bytes(_)
B64Bytes(f) ==
  IF Len(f) < 4 THEN <<>>
  ELSE LET s1 == B64Index(f[1])
           s2 == B64Index(f[2])
           s3 == B64Index(f[3])
           s4 == B64Index(f[4])
       IN  << s1 * 4 + (s2 \div 16),
              (s2 % 16) * 16 + (s3 \div 4),
              (s3 % 4) * 64 + s4 >> \o B64Bytes(SubSeq(f, 5, Len(f)))

\* base64.b64decode(public_key_b64), for a valid input: the DER bytes.
B64Decode(k) == B64Bytes(B64Filtered(k))

\* compute_fingerprint: colon-separated hex of SHA-256 over the decoded bytes.
\* SHA-256 is taken collision free: the digest is represented by its preimage.
compute_fingerprint(public_key_b64) == [sha256 |-> B64Decode(public_key_b64)]

\* ------------------------------------------------------------- JSON values
\* Opaque values of a client payload (ciphertext, iv, timestamp, one envelope).
\* Socket.IO delivers text as str, a binary attachment as bytes, and an absent
\* key reads as None through dict.get.
Str(v) == [t |-> "str", v |-> v]
Bytes(v) == [t |-> "bytes", v |-> v]
Null == [t |-> "null", v |-> ""]

\* data.get(key), with `dflt` standing for the value the code uses for None.
GetOr(data, key, dflt) == IF key \in DOMAIN data THEN data[key] ELSE dflt

\* ---------------------------------------------------- insertion-ordered dict
\* participants: Dict[str, Dict] as the sequence of its items in insertion
\* order; an item is [username, public_key, fingerprint, sid] (joined_at is
\* written once and never read, it is left out).
DictKeys(d) == {d[i].username : i \in 1..Len(d)}

\* 0 when the key is absent.
DictIndex(d, u) ==
  IF u \in DictKeys(d) THEN CHOOSE i \in 1..Len(d) : d[i].username = u ELSE 0

\* d[u] for a key that is present.
DictGet(d, u) == d[DictIndex(d, u)]

\* d.pop(u, None): the dict without the key.
DictPop(d, u) == SelectSeq(d, LAMBDA it : it.username # u)

\* d[u] = item: an existing key keeps its position, a new key goes last.
DictSet(d, item) ==
  IF item.username \in DictKeys(d)
  THEN [i \in 1..Len(d) |-> IF d[i].username = item.username THEN item ELSE d[i]]
  ELSE Append(d, item)

\* ------------------------------------------------------------------- state
VARIABLES
  connected,     \* the sids of the open Socket.IO connections
  participants,  \* app.py:16, insertion-ordered dict username -> info
  sessions,      \* app.py:17, dict sid -> username
  logs,          \* app.py:18, list of {nonce, ciphertext}
  out,           \* the events emitted for the request in hand, in emission order
  last,          \* the request in hand: [op, sid, data, raised], or Idle
  pre,           \* the state the request in hand found when its handler started
  export_token,  \* the environment's LOG_EXPORT_TOKEN, fixed for the process
  threads,       \* per connection: the handler thread in flight and its locals
  broadcasts,    \* the receive_message payloads broadcast so far, in order
  exported       \* what the last successful GET /logs returned, held by its reader

vars == <<connected, participants, sessions, logs, out, last, pre,
          export_token, threads, broadcasts, exported>>

\* ------------------------------------------------------------------ emits
\* Mutant of EmitSelf: the event goes to every connection.
EmitSelf_broadcast(sid, event, payload) ==
  [event |-> event, to |-> connected, payload |-> payload]

\* emit(event, payload) inside a handler: to the calling connection only.
EmitSelf(sid, event, payload) == [event |-> event, to |-> {sid}, payload |-> payload]

\* socketio.emit(event, payload): to every connection.
EmitAll(event, payload) == [event |-> event, to |-> connected, payload |-> payload]

\* Mutant of EmitOthers: include_self is left at its default.
EmitOthers_include_self(sid, event, payload) ==
  [event |-> event, to |-> connected, payload |-> payload]

\* socketio.emit(event, payload, include_self=False): skip_sid = request.sid.
EmitOthers(sid, event, payload) ==
  [event |-> event, to |-> connected \ {sid}, payload |-> payload]

\* ---------------------------------------------------------------- snapshot
\* sorted(items, key=f) is stable: an item goes after every item whose key is
\* not greater than its own.
RECURSIVE InsertByLower(_, _)
InsertByLower(sorted, it) ==
  IF sorted = <<>> THEN <<it>>
  ELSE IF StrLess(Lower(it.username), Lower(Head(sorted).username))
       THEN <<it>> \o sorted
       ELSE <<Head(sorted)>> \o InsertByLower(Tail(sorted), it)

RECURSIVE SortedByLower(_)
SortedByLower(items) ==
  IF items = <<>> THEN <<>>
  ELSE InsertByLower(SortedByLower(SubSeq(items, 1, Len(items) - 1)),
                     items[Len(items)])

\* Mutant of participant_snapshot: the items in the dict's own order.
participant_snapshot_unsorted(d) ==
  [i \in 1..Len(d) |->
     [username |-> d[i].username,
      fingerprint |-> d[i].fingerprint,
      public_key |-> d[i].public_key]]

\* participant_snapshot: the public fields of every record, sorted by
\* lower-cased username.
participant_snapshot(d) ==
  LET s == SortedByLower(d)
  IN  [i \in 1..Len(s) |->
         [username |-> s[i].username,
          fingerprint |-> s[i].fingerprint,
          public_key |-> s[i].public_key]]

broadcast_participants(d) ==
  EmitAll("participants", [participants |-> participant_snapshot(d)])

\* Mutant of remove_participant: the departure is not announced.
remove_participant_silent(st, sid) ==
  IF sid \notin DOMAIN st.sessions THEN st
  ELSE [participants |-> DictPop(st.participants, st.sessions[sid]),
        sessions |-> [s \in DOMAIN st.sessions \ {sid} |-> st.sessions[s]],
        out |-> st.out]

\* Mutant of remove_participant: the record goes, the session entry stays.
remove_participant_keeps_session(st, sid) ==
  IF sid \notin DOMAIN st.sessions THEN st
  ELSE
    LET username == st.sessions[sid]
    IN  IF DictIndex(st.participants, username) = 0 THEN st
        ELSE
          LET info == DictGet(st.participants, username)
              part1 == DictPop(st.participants, username)
          IN  [participants |-> part1,
               sessions |-> st.sessions,
               out |-> st.out \o
                 << EmitOthers(sid, "user_left",
                      [username |-> username, fingerprint |-> info.fingerprint]),
                    broadcast_participants(part1) >>]

\* ------------------------------------------------------ remove_participant
\* st = [participants, sessions, out]; the result is st after the call.
remove_participant(st, sid) ==
  IF sid \notin DOMAIN st.sessions THEN st
  ELSE
    LET username == st.sessions[sid]
        sess1 == [s \in DOMAIN st.sessions \ {sid} |-> st.sessions[s]]
    IN  IF username = <<>> THEN [st EXCEPT !.sessions = sess1]
        ELSE IF DictIndex(st.participants, username) = 0
             THEN [st EXCEPT !.sessions = sess1]
             ELSE
               LET info == DictGet(st.participants, username)
                   part1 == DictPop(st.participants, username)
               IN  [participants |-> part1,
                    sessions |-> sess1,
                    out |-> st.out \o
                      << EmitOthers(sid, "user_left",
                           [username |-> username, fingerprint |-> info.fingerprint]),
                         broadcast_participants(part1) >>]

\* ------------------------------------------------------------------ inputs
\* Usernames as clients may send them (before strip()).
RawUsernames ==
  { <<" ">>,                      \* blank: empty after strip()
    <<" ", "a">>,                 \* one character after strip()
    <<"a", "b">>,
    <<" ", "a", "b", " ">>,       \* "ab" after strip()
    <<"A", "B">>,                 \* differs from "ab" in letter case only
    <<"B", "a">> }

\* The usernames that can be registered.
Usernames == {u \in {Strip(r) : r \in RawUsernames} : Len(u) >= 2}

\* Public keys as clients may send them: two valid base64 texts, one with
\* incorrect padding, and the empty string.
PublicKeys ==
  { <<"Q", "U", "J", "D">>,
    <<"R", "E", "V", "G">>,
    <<"Q", "U", "J">>,
    <<>> }

RegisterData ==
  {[username |-> u, public_key |-> k] : u \in RawUsernames, k \in PublicKeys}
    \cup {[username |-> <<"a", "b">>]}
    \cup {[public_key |-> <<"Q", "U", "J", "D">>]}

Ciphertexts == {Str("ct"), Bytes("ct")}
IV1 == Str("iv")
TS1 == Str("ts")

\* Envelope dicts: one opaque envelope per key, keys from the usernames.
EnvelopeDicts == UNION {[K -> {Str("env")}] : K \in SUBSET Usernames}

Senders == Usernames \cup {<<>>}

SendData ==
  {[from |-> s, ciphertext |-> c, iv |-> IV1, timestamp |-> TS1, envelopes |-> e] :
      s \in Senders, c \in Ciphertexts, e \in EnvelopeDicts}
    \cup {[ciphertext |-> Str("ct"), iv |-> IV1, timestamp |-> TS1, envelopes |-> e] :
      e \in EnvelopeDicts}
    \cup {[from |-> s, ciphertext |-> Str("ct")] : s \in Senders}

KeyRequests ==
  {[username |-> u] : u \in Usernames \cup {<<>>}} \cup {[other |-> <<>>]}

\* os.urandom(12) and the clock of store_encrypted_log.
Nonces == {"n1", "n2"}
Times == {"T1"}
LOG_KEY == "log-key"

NoData == [none |-> <<>>]

\* ---------------------------------------------------------------- audit log
\* json.dumps(payload, separators=(",", ":")) raises TypeError on bytes.
JsonSerializable(payload) ==
  /\ \A f \in {"ciphertext", "iv", "timestamp"} : payload[f].t # "bytes"
  /\ \A k \in DOMAIN payload.envelopes : payload.envelopes[k].t # "bytes"

json_dumps(obj) == [json |-> obj]
b64encode(x) == [b64 |-> x]
\* AESGCM(key).encrypt(nonce, data, None): opaque, opened only by key and nonce.
aes_encrypt(key, nonce, data) == [key |-> key, nonce |-> nonce, sealed |-> data]

\* Mutant of store_encrypted_log: the stored nonce is not the one the entry
\* was sealed with.
store_encrypted_log_other_nonce(payload, nonce, now) ==
  LET entry_payload ==
        [from |-> payload.from, ciphertext |-> payload.ciphertext, iv |-> payload.iv,
         timestamp |-> payload.timestamp, envelopes |-> payload.envelopes,
         stored_at |-> now]
  IN  [nonce |-> b64encode(nonce),
       ciphertext |-> b64encode(aes_encrypt(LOG_KEY, "n0", json_dumps(entry_payload)))]

\* store_encrypted_log: the entry appended for `payload`.
store_encrypted_log(payload, nonce, now) ==
  LET entry_payload ==
        [from |-> payload.from, ciphertext |-> payload.ciphertext, iv |-> payload.iv,
         timestamp |-> payload.timestamp, envelopes |-> payload.envelopes,
         stored_at |-> now]
  IN  [nonce |-> b64encode(nonce),
       ciphertext |-> b64encode(aes_encrypt(LOG_KEY, nonce, json_dumps(entry_payload)))]

\* Mutant of logs_append: the new entry goes to the front.
logs_append_front(l, entry) == <<entry>> \o l

\* Mutant of logs_append: the entry is dropped.
logs_append_dropped(l, entry) == l

\* logs.append(entry)
logs_append(l, entry) == Append(l, entry)

\* ---------------------------------------------- scripts/decrypt_logs.py
json_loads(text) == text.json
b64decode(x) == x.b64
\* AESGCM(key).decrypt(nonce, data, None) raises InvalidTag unless key and
\* nonce are those of the encryption.
aes_opens(key, nonce, data) == data.key = key /\ data.nonce = nonce
aes_decrypt(key, nonce, data) == data.sealed

\* decrypt_entries: the payloads in the order of the entries, or the
\* exception of the first entry that does not open.
decrypt_entries(entries, key) ==
  IF \E i \in 1..Len(entries) :
       ~aes_opens(key, b64decode(entries[i].nonce), b64decode(entries[i].ciphertext))
  THEN [raised |-> TRUE, payloads |-> <<>>]
  ELSE [raised |-> FALSE,
        payloads |->
          [i \in 1..Len(entries) |->
             json_loads(aes_decrypt(key, b64decode(entries[i].nonce),
                                    b64decode(entries[i].ciphertext)))]]

\* ------------------------------------------------------------------ handlers
Msg(text) == <<text>>

\* No request in hand: the server waits for the next event.
Idle == [op |-> "idle", sid |-> 0, data |-> NoData, raised |-> FALSE]

\* The state a handler finds when it starts.
Found ==
  [connected |-> connected, participants |-> participants,
   sessions |-> sessions, logs |-> logs]

NothingFound == [connected |-> {}, participants |-> <<>>, sessions |-> <<>>, logs |-> <<>>]

\* An optional text (an environment variable, a request header): unset, or
\* set to a value.
Unset == [set |-> FALSE, v |-> ""]
Set(v) == [set |-> TRUE, v |-> v]

\* collect_encrypted_logs returning the module's list itself.
collect_encrypted_logs_aliased(l) == [live |-> TRUE, items |-> <<>>]

\* The entries an export result shows to whoever reads it now.
Entries(result) == IF result.live THEN logs ELSE result.items

\* collect_encrypted_logs: list(logs) is a new list holding the entries of the
\* call time (live = FALSE); a result that aliased the module's list would
\* show whatever logs holds when it is read (live = TRUE).
collect_encrypted_logs(l) == [live |-> FALSE, items |-> l]

\* Nothing exported yet.
NoExport == [result |-> [live |-> FALSE, items |-> <<>>], len |-> 0]

\* No handler thread in flight for a connection. The fields are the locals of
\* the handlers: left and left_fp are remove_participant's username and
\* info["fingerprint"]; expected and missing are handle_send_message's
\* expected_recipients and missing; seen is the username set at the time of
\* the sender check.
ThreadIdle ==
  [pc |-> "idle", op |-> "none", data |-> NoData, username |-> <<>>,
   public_key |-> <<>>, fingerprint |-> [sha256 |-> <<>>],
   left |-> <<>>, left_fp |-> [sha256 |-> <<>>], seen |-> {},
   expected |-> {}, missing |-> {}]

\* The state of the module once imported.
InitWith(token) ==
  /\ connected = {}
  /\ participants = <<>>
  /\ sessions = <<>>
  /\ logs = <<>>
  /\ out = <<>>
  /\ last = Idle
  /\ pre = NothingFound
  /\ export_token = token
  /\ threads = [c \in Sids |-> ThreadIdle]
  /\ broadcasts = <<>>
  /\ exported = NoExport

\* No LOG_EXPORT_TOKEN in the environment.
Init == InitWith(Unset)

\* A client opens a Socket.IO connection and is given a sid.
Connect(c) ==
  /\ last = Idle
  /\ c \notin connected
  /\ pre' = Found
  /\ connected' = connected \cup {c}
  /\ out' = <<>>
  /\ last' = [op |-> "connect", sid |-> c, data |-> NoData, raised |-> FALSE]
  /\ UNCHANGED <<participants, sessions, logs, export_token, threads, broadcasts, exported>>

\* `not username or not public_key`: None and "" are both falsy.
register_missing_fields(username, public_key) == username = <<>> \/ public_key = <<>>

\* Mutant of register_too_short: off by one.
register_too_short_lax(username) == Len(username) < 1

register_too_short(username) == Len(username) < 2

\* Mutant of username_in_use: the uniqueness check is missing.
username_in_use_never(d, username, c) == FALSE

\* Mutant of username_in_use: the sid comparison is inverted.
username_in_use_inverted(d, username, c) ==
  /\ DictIndex(d, username) # 0
  /\ DictGet(d, username).sid = c

\* existing = participants.get(username); existing and existing["sid"] != request.sid
username_in_use(d, username, c) ==
  /\ DictIndex(d, username) # 0
  /\ DictGet(d, username).sid # c

\* Mutant of register_reject: the caller's old binding is dropped before the
\* request is validated.
register_reject_evicting(st, c, text) ==
  LET st1 == remove_participant(st, c)
  IN  [participants |-> st1.participants, sessions |-> st1.sessions,
       out |-> st1.out \o <<EmitSelf(c, "register_error", [message |-> Msg(text)])>>,
       raised |-> FALSE]

\* emit("register_error", ...); return: nothing but the error leaves the handler.
register_reject(st, c, text) ==
  [participants |-> st.participants, sessions |-> st.sessions,
   out |-> <<EmitSelf(c, "register_error", [message |-> Msg(text)])>>,
   raised |-> FALSE]

\* handle_register: the outcome [participants, sessions, out, raised].
handle_register(c, data) ==
  LET username == Strip(GetOr(data, "username", <<>>))
      public_key == GetOr(data, "public_key", <<>>)
      st0 == [participants |-> participants, sessions |-> sessions, out |-> <<>>]
      reject(text) == register_reject(st0, c, text)
  IN  IF register_missing_fields(username, public_key)
      THEN reject("Username and public key are required.")
      ELSE IF register_too_short(username)
      THEN reject("Username must be at least 2 characters.")
      ELSE IF username_in_use(participants, username, c)
      THEN reject("That username is already in use.")
      ELSE IF ~B64Valid(public_key)
      THEN [participants |-> participants, sessions |-> sessions,
            out |-> <<>>, raised |-> TRUE]
      ELSE
        LET fingerprint == compute_fingerprint(public_key)
            st1 == remove_participant(st0, c)
            part2 == DictSet(st1.participants,
                       [username |-> username, public_key |-> public_key,
                        fingerprint |-> fingerprint, sid |-> c])
            sess2 == [s \in DOMAIN st1.sessions \cup {c} |->
                        IF s = c THEN username ELSE st1.sessions[s]]
        IN  [participants |-> part2,
             sessions |-> sess2,
             out |-> st1.out \o
               << EmitSelf(c, "register_success",
                    [username |-> username, fingerprint |-> fingerprint,
                     participants |-> participant_snapshot(part2)]),
                  EmitOthers(c, "user_joined",
                    [username |-> username, fingerprint |-> fingerprint]),
                  broadcast_participants(part2) >>,
             raised |-> FALSE]

Register(c, data) ==
  /\ last = Idle
  /\ c \in connected
  /\ pre' = Found
  /\ LET r == handle_register(c, data)
     IN  /\ participants' = r.participants
         /\ sessions' = r.sessions
         /\ out' = r.out
         /\ last' = [op |-> "register", sid |-> c, data |-> data, raised |-> r.raised]
  /\ UNCHANGED <<connected, logs, export_token, threads, broadcasts, exported>>

\* Mutant of sender_not_registered: any registered sender will do, and a
\* connection's former username too (the check is skipped).
sender_not_registered_skipped(d, sender, c) == FALSE

\* Mutant of sender_not_registered: the sid of the record is not compared.
sender_not_registered_any_sid(d, sender, c) == DictIndex(d, sender) = 0

\* member = participants.get(sender); not member or member["sid"] != request.sid
sender_not_registered(d, sender, c) ==
  \/ DictIndex(d, sender) = 0
  \/ DictGet(d, sender).sid # c

\* Mutant of missing_envelopes: the envelopes are not looked at.
missing_envelopes_ignored(d, envelopes) == {}

\* Mutant of missing_envelopes: the set difference is taken the wrong way round.
missing_envelopes_swapped(d, envelopes) == DOMAIN envelopes \ DictKeys(d)

\* missing = set(participants.keys()) - set(envelopes.keys())
missing_envelopes(d, envelopes) == DictKeys(d) \ DOMAIN envelopes

\* handle_send_message: the outcome [logs, out, raised].
handle_send_message(c, data, nonce, now) ==
  LET sender == GetOr(data, "from", <<>>)
      ciphertext == GetOr(data, "ciphertext", Null)
      iv == GetOr(data, "iv", Null)
      timestamp == GetOr(data, "timestamp", Null)
      envelopes == GetOr(data, "envelopes", <<>>)
      reject(message) ==
        [logs |-> logs,
         out |-> <<EmitSelf(c, "delivery_error", [message |-> message])>>,
         raised |-> FALSE]
  IN  IF sender = <<>>
      THEN reject(Msg("Missing sender username."))
      ELSE IF sender_not_registered(participants, sender, c)
      THEN reject(Msg("Sender not registered."))
      ELSE
        LET missing == missing_envelopes(participants, envelopes)
        IN  IF missing # {}
            THEN reject(Msg("Missing envelopes for: ") \o JoinComma(Sorted(missing)))
            ELSE
              LET payload ==
                    [from |-> sender, ciphertext |-> ciphertext, iv |-> iv,
                     timestamp |-> timestamp, envelopes |-> envelopes]
              IN  IF ~JsonSerializable(payload)
                  THEN [logs |-> logs, out |-> <<>>, raised |-> TRUE]
                  ELSE [logs |-> logs_append(logs, store_encrypted_log(payload, nonce, now)),
                        out |-> <<EmitAll("receive_message", payload)>>,
                        raised |-> FALSE]

\* The payloads of the receive_message events among the emitted ones, in the
\* order of emission.
ReceiveMessagePayloads(o) ==
  LET sel == SelectSeq(o, LAMBDA e : e.event = "receive_message")
  IN  [i \in 1..Len(sel) |-> sel[i].payload]

\* The send_message event, taken while the audit log holds fewer than cap
\* entries.
SendMessageUpTo(c, data, cap) ==
  /\ last = Idle
  /\ c \in connected
  /\ pre' = Found
  /\ Len(logs) < cap
  /\ \E nonce \in Nonces, now \in Times :
       LET r == handle_send_message(c, data, nonce, now)
       IN  /\ logs' = r.logs
           /\ out' = r.out
           /\ broadcasts' = broadcasts \o ReceiveMessagePayloads(r.out)
           /\ last' = [op |-> "send_message", sid |-> c, data |-> data,
                       raised |-> r.raised]
  /\ UNCHANGED <<connected, participants, sessions, export_token, threads, exported>>

SendMessage(c, data) == SendMessageUpTo(c, data, MaxLogs)

\* A JSON value that may be null: None, or a present value.
None == [null |-> TRUE]
Some(v) == [null |-> FALSE, v |-> v]

\* handle_request_public_key with the lookup answering for any name as if it
\* were unknown to the caller: the username is withheld whenever no key is
\* found.
handle_request_public_key_withholding(d, data) ==
  LET username == GetOr(data, "username", <<>>)
  IN  IF username = <<>> \/ DictIndex(d, username) = 0
      THEN [username |-> None, public_key |-> None]
      ELSE [username |-> Some(username),
            public_key |-> Some(DictGet(d, username).public_key),
            fingerprint |-> Some(DictGet(d, username).fingerprint)]

\* handle_request_public_key: the payload of the public_key answer for the
\* registry d. A missing or empty username is answered with the two-field
\* payload {username: None, public_key: None}; any other username is echoed,
\* with the record's key and fingerprint, or None for both when
\* participants.get(username) finds nothing.
handle_request_public_key(d, data) ==
  LET username == GetOr(data, "username", <<>>)
      known == DictIndex(d, username) # 0
  IN  IF username = <<>>
      THEN [username |-> None, public_key |-> None]
      ELSE [username |-> Some(username),
            public_key |->
              IF known THEN Some(DictGet(d, username).public_key) ELSE None,
            fingerprint |->
              IF known THEN Some(DictGet(d, username).fingerprint) ELSE None]

\* The request_public_key event: the answer goes to the asking connection.
RequestPublicKey(c, data) ==
  /\ last = Idle
  /\ c \in connected
  /\ pre' = Found
  /\ out' = <<EmitSelf(c, "public_key", handle_request_public_key(participants, data))>>
  /\ last' = [op |-> "request_public_key", sid |-> c, data |-> data, raised |-> FALSE]
  /\ UNCHANGED <<connected, participants, sessions, logs,
                 export_token, threads, broadcasts, exported>>

\* get_logs' test: a token is required (the variable is set and not empty)
\* and the X-Log-Token header, absent or present, is not that token. This
\* variant lets a request without the header through.
export_unauthorized_if_supplied(token_required, supplied) ==
  /\ token_required.set
  /\ token_required.v # ""
  /\ supplied.set
  /\ supplied # token_required

\* get_logs' test: token_required and supplied != token_required.
export_unauthorized(token_required, supplied) ==
  /\ token_required.set
  /\ token_required.v # ""
  /\ supplied # token_required

\* GET /logs with the X-Log-Token header supplied: 401 with an error body, or
\* 200 with a copy of the log, which the reader keeps.
GetLogs(supplied) ==
  /\ last = Idle
  /\ pre' = Found
  /\ IF export_unauthorized(export_token, supplied)
     THEN /\ out' = <<[event |-> "http_response", to |-> {},
                       payload |-> [status |-> 401, error |-> "unauthorized"]]>>
          /\ exported' = exported
     ELSE LET result == collect_encrypted_logs(logs)
          IN  /\ out' = <<[event |-> "http_response", to |-> {},
                           payload |-> [status |-> 200, entries |-> result]]>>
              /\ exported' = [result |-> result, len |-> Len(logs)]
  /\ last' = [op |-> "get_logs", sid |-> 0, data |-> [token |-> supplied],
              raised |-> FALSE]
  /\ UNCHANGED <<connected, participants, sessions, logs, export_token, threads, broadcasts>>

\* handle_leave_chat
LeaveChat(c) ==
  /\ last = Idle
  /\ c \in connected
  /\ pre' = Found
  /\ LET st == remove_participant(
                 [participants |-> participants, sessions |-> sessions, out |-> <<>>], c)
     IN  /\ participants' = st.participants
         /\ sessions' = st.sessions
         /\ out' = st.out
  /\ last' = [op |-> "leave_chat", sid |-> c, data |-> NoData, raised |-> FALSE]
  /\ UNCHANGED <<connected, logs, export_token, threads, broadcasts, exported>>

\* handle_disconnect: runs while the connection is still open, then the
\* connection is gone.
Disconnect(c) ==
  /\ last = Idle
  /\ c \in connected
  /\ pre' = Found
  /\ LET st == remove_participant(
                 [participants |-> participants, sessions |-> sessions, out |-> <<>>], c)
     IN  /\ participants' = st.participants
         /\ sessions' = st.sessions
         /\ out' = st.out
  /\ connected' = connected \ {c}
  /\ last' = [op |-> "disconnect", sid |-> c, data |-> NoData, raised |-> FALSE]
  /\ UNCHANGED <<logs, export_token, threads, broadcasts, exported>>

\* The request in hand is finished: its events are handed to the transport
\* and the server takes the next event (events are processed one at a time).
Deliver ==
  /\ last # Idle
  /\ out' = <<>>
  /\ last' = Idle
  /\ pre' = NothingFound
  /\ UNCHANGED <<connected, participants, sessions, logs,
                 export_token, threads, broadcasts, exported>>

Next ==
  \/ \E c \in Sids : Connect(c)
  \/ \E c \in Sids, data \in RegisterData : Register(c, data)
  \/ \E c \in Sids, data \in SendData : SendMessage(c, data)
  \/ \E c \in Sids, data \in KeyRequests : RequestPublicKey(c, data)
  \/ \E c \in Sids : LeaveChat(c)
  \/ \E c \in Sids : Disconnect(c)
  \/ Deliver

Spec == Init /\ [][Next]_vars

\* ------------------------------------------------- the server with its log
\* The same server with the GET /logs route and a log of up to MaxAuditLogs
\* entries, driven by fewer distinct requests: two usernames, one key.
AuditNames == {<<"a", "b">>, <<"B", "a">>}

AuditRegisterData ==
  {[username |-> u, public_key |-> <<"Q", "U", "J", "D">>] : u \in AuditNames}

AuditSendData ==
  {[from |-> s, ciphertext |-> c, iv |-> IV1, timestamp |-> TS1, envelopes |-> e] :
      s \in AuditNames, c \in Ciphertexts,
      e \in UNION {[K -> {Str("env")}] : K \in SUBSET AuditNames}}

AuditKeyRequests == {[username |-> <<"a", "b">>]}

\* LOG_EXPORT_TOKEN: not in the environment, set to the empty string, set.
ExportTokens == {Unset, Set(""), Set("secret")}

\* X-Log-Token: no header, the token, another text.
SuppliedTokens == {Unset, Set("secret"), Set("wrong")}

InitAudit == \E token \in ExportTokens : InitWith(token)

NextAudit ==
  \/ \E c \in Sids : Connect(c)
  \/ \E c \in Sids, data \in AuditRegisterData : Register(c, data)
  \/ \E c \in Sids, data \in AuditSendData : SendMessageUpTo(c, data, MaxAuditLogs)
  \/ \E c \in Sids, data \in AuditKeyRequests : RequestPublicKey(c, data)
  \/ \E c \in Sids : LeaveChat(c)
  \/ \E c \in Sids : Disconnect(c)
  \/ \E supplied \in SuppliedTokens : GetLogs(supplied)
  \/ Deliver

SpecAudit == InitAudit /\ [][NextAudit]_vars

\* --------------------------------------- the server with threaded handlers
\* async_mode="threading" (app.py:14): every event is handled on its own
\* thread and the module holds no lock, so handlers interleave between any
\* two accesses to participants, sessions and logs and between any two
\* emits. One statement that touches shared state or emits is one step; the
\* local statements before it belong to the step. One handler is in flight
\* per connection. out holds the events of the latest step.
MaxThreadLogs == 2

ThreadNames == {<<"a", "b">>, <<"B", "a">>}

ThreadRegisterData ==
  {[username |-> u, public_key |-> <<"Q", "U", "J", "D">>] : u \in ThreadNames}

\* "ab" with an envelope for itself only, and "ab" and "Ba" with envelopes
\* for both names.
ThreadSendData ==
  {[from |-> <<"a", "b">>, ciphertext |-> Str("ct"), iv |-> IV1, timestamp |-> TS1,
    envelopes |-> [k \in {<<"a", "b">>} |-> Str("env")]]}
    \cup
  {[from |-> s, ciphertext |-> Str("ct"), iv |-> IV1, timestamp |-> TS1,
    envelopes |-> [k \in ThreadNames |-> Str("env")]] : s \in ThreadNames}

\* The thread of connection c moves on to t.
Goto(c, t) == threads' = [threads EXCEPT ![c] = t]

\* The thread of connection c is at the statement pc of handler op.
At(c, op, pc) == threads[c].op = op /\ threads[c].pc = pc

\* The thread of connection c is inside remove_participant, at pc.
InRemove(c, pc) ==
  /\ threads[c].op \in {"register", "leave_chat", "disconnect"}
  /\ threads[c].pc = pc

\* remove_participant returns in the thread of connection c: a register goes
\* on to install its record; a leave_chat is over; a disconnect is over and
\* the connection is gone.
ReturnFromRemove(c) ==
  /\ Goto(c, IF threads[c].op = "register"
             THEN [threads[c] EXCEPT !.pc = "install"]
             ELSE ThreadIdle)
  /\ connected' = IF threads[c].op = "disconnect" THEN connected \ {c} ELSE connected

\* A connection is accepted.
ThreadConnect(c) ==
  /\ c \notin connected
  /\ connected' = connected \cup {c}
  /\ out' = <<>>
  /\ UNCHANGED <<participants, sessions, logs, last, pre,
                 export_token, threads, broadcasts, exported>>

\* handle_register up to compute_fingerprint (app.py:114-129): the field
\* checks, existing = participants.get(username), the fingerprint.
RegisterCheck(c, data) ==
  /\ c \in connected
  /\ threads[c].pc = "idle"
  /\ LET username == Strip(GetOr(data, "username", <<>>))
         public_key == GetOr(data, "public_key", <<>>)
         error(text) ==
           /\ out' = <<EmitSelf(c, "register_error", [message |-> Msg(text)])>>
           /\ UNCHANGED threads
     IN  IF register_missing_fields(username, public_key)
         THEN error("Username and public key are required.")
         ELSE IF register_too_short(username)
         THEN error("Username must be at least 2 characters.")
         ELSE IF username_in_use(participants, username, c)
         THEN error("That username is already in use.")
         ELSE IF ~B64Valid(public_key)
         THEN out' = <<>> /\ UNCHANGED threads
         ELSE /\ out' = <<>>
              /\ Goto(c, [ThreadIdle EXCEPT
                            !.op = "register", !.pc = "pop_session",
                            !.data = data, !.username = username,
                            !.public_key = public_key,
                            !.fingerprint = compute_fingerprint(public_key)])
  /\ UNCHANGED <<connected, participants, sessions, logs, last, pre,
                 export_token, broadcasts, exported>>

\* handle_leave_chat and handle_disconnect call remove_participant.
RemoveCall(c, op) ==
  /\ c \in connected
  /\ threads[c].pc = "idle"
  /\ Goto(c, [ThreadIdle EXCEPT !.op = op, !.pc = "pop_session"])
  /\ out' = <<>>
  /\ UNCHANGED <<connected, participants, sessions, logs, last, pre,
                 export_token, broadcasts, exported>>

\* username = sessions.pop(sid, None); if not username: return
RemovePopSession(c) ==
  /\ InRemove(c, "pop_session")
  /\ out' = <<>>
  /\ IF c \in DOMAIN sessions
     THEN /\ sessions' = [s \in DOMAIN sessions \ {c} |-> sessions[s]]
          /\ Goto(c, [threads[c] EXCEPT !.pc = "pop_record", !.left = sessions[c]])
          /\ UNCHANGED connected
     ELSE /\ UNCHANGED sessions
          /\ ReturnFromRemove(c)
  /\ UNCHANGED <<participants, logs, last, pre, export_token, broadcasts, exported>>

\* info = participants.pop(username, None); if not info: return
RemovePopRecord(c) ==
  /\ InRemove(c, "pop_record")
  /\ out' = <<>>
  /\ IF DictIndex(participants, threads[c].left) # 0
     THEN /\ participants' = DictPop(participants, threads[c].left)
          /\ Goto(c, [threads[c] EXCEPT
                        !.pc = "emit_left",
                        !.left_fp = DictGet(participants, threads[c].left).fingerprint])
          /\ UNCHANGED connected
     ELSE /\ UNCHANGED participants
          /\ ReturnFromRemove(c)
  /\ UNCHANGED <<sessions, logs, last, pre, export_token, broadcasts, exported>>

\* socketio.emit("user_left", ..., include_self=False)
RemoveEmitLeft(c) ==
  /\ InRemove(c, "emit_left")
  /\ out' = <<EmitOthers(c, "user_left",
                [username |-> threads[c].left, fingerprint |-> threads[c].left_fp])>>
  /\ Goto(c, [threads[c] EXCEPT !.pc = "broadcast_left"])
  /\ UNCHANGED <<connected, participants, sessions, logs, last, pre,
                 export_token, broadcasts, exported>>

\* broadcast_participants() at the end of remove_participant
RemoveBroadcast(c) ==
  /\ InRemove(c, "broadcast_left")
  /\ out' = <<broadcast_participants(participants)>>
  /\ ReturnFromRemove(c)
  /\ UNCHANGED <<participants, sessions, logs, last, pre,
                 export_token, broadcasts, exported>>

\* participants[username] = {...}
RegisterInstall(c) ==
  /\ At(c, "register", "install")
  /\ participants' =
       DictSet(participants,
         [username |-> threads[c].username, public_key |-> threads[c].public_key,
          fingerprint |-> threads[c].fingerprint, sid |-> c])
  /\ out' = <<>>
  /\ Goto(c, [threads[c] EXCEPT !.pc = "bind"])
  /\ UNCHANGED <<connected, sessions, logs, last, pre,
                 export_token, broadcasts, exported>>

\* sessions[request.sid] = username
RegisterBind(c) ==
  /\ At(c, "register", "bind")
  /\ sessions' = [s \in DOMAIN sessions \cup {c} |->
                    IF s = c THEN threads[c].username ELSE sessions[s]]
  /\ out' = <<>>
  /\ Goto(c, [threads[c] EXCEPT !.pc = "success"])
  /\ UNCHANGED <<connected, participants, logs, last, pre,
                 export_token, broadcasts, exported>>

\* emit("register_success", {..., "participants": participant_snapshot()})
RegisterEmitSuccess(c) ==
  /\ At(c, "register", "success")
  /\ out' = <<EmitSelf(c, "register_success",
                [username |-> threads[c].username,
                 fingerprint |-> threads[c].fingerprint,
                 participants |-> participant_snapshot(participants)])>>
  /\ Goto(c, [threads[c] EXCEPT !.pc = "joined"])
  /\ UNCHANGED <<connected, participants, sessions, logs, last, pre,
                 export_token, broadcasts, exported>>

\* socketio.emit("user_joined", ..., include_self=False)
RegisterEmitJoined(c) ==
  /\ At(c, "register", "joined")
  /\ out' = <<EmitOthers(c, "user_joined",
                [username |-> threads[c].username,
                 fingerprint |-> threads[c].fingerprint])>>
  /\ Goto(c, [threads[c] EXCEPT !.pc = "broadcast_joined"])
  /\ UNCHANGED <<connected, participants, sessions, logs, last, pre,
                 export_token, broadcasts, exported>>

\* broadcast_participants() at the end of handle_register
RegisterBroadcast(c) ==
  /\ At(c, "register", "broadcast_joined")
  /\ out' = <<broadcast_participants(participants)>>
  /\ Goto(c, ThreadIdle)
  /\ UNCHANGED <<connected, participants, sessions, logs, last, pre,
                 export_token, broadcasts, exported>>

\* The send_message handlers that have not appended their entry yet.
SendsBeforeLog ==
  {c \in Sids : threads[c].op = "send_message" /\ threads[c].pc \in {"validate", "log"}}

\* handle_send_message up to the sender check (app.py:158-175):
\* member = participants.get(sender).
SendCheckSender(c, data) ==
  /\ c \in connected
  /\ threads[c].pc = "idle"
  /\ Len(logs) + Cardinality(SendsBeforeLog) < MaxThreadLogs
  /\ LET sender == GetOr(data, "from", <<>>)
         error(message) ==
           /\ out' = <<EmitSelf(c, "delivery_error", [message |-> message])>>
           /\ UNCHANGED threads
     IN  IF sender = <<>>
         THEN error(Msg("Missing sender username."))
         ELSE IF sender_not_registered(participants, sender, c)
         THEN error(Msg("Sender not registered."))
         ELSE /\ out' = <<>>
              /\ Goto(c, [ThreadIdle EXCEPT
                            !.op = "send_message", !.pc = "validate",
                            !.data = data, !.seen = DictKeys(participants)])
  /\ UNCHANGED <<connected, participants, sessions, logs, last, pre,
                 export_token, broadcasts, exported>>

\* expected_recipients = set(participants.keys()); missing = expected - actual
SendValidate(c) ==
  /\ At(c, "send_message", "validate")
  /\ out' = <<>>
  /\ LET missing == missing_envelopes(participants,
                      GetOr(threads[c].data, "envelopes", <<>>))
     IN  Goto(c, [threads[c] EXCEPT
                    !.pc = IF missing # {} THEN "reject" ELSE "log",
                    !.expected = DictKeys(participants),
                    !.missing = missing])
  /\ UNCHANGED <<connected, participants, sessions, logs, last, pre,
                 export_token, broadcasts, exported>>

\* emit("delivery_error", {"message": "Missing envelopes for: ..."}); return
SendReject(c) ==
  /\ At(c, "send_message", "reject")
  /\ out' = <<EmitSelf(c, "delivery_error",
                [message |-> Msg("Missing envelopes for: ")
                               \o JoinComma(Sorted(threads[c].missing))])>>
  /\ Goto(c, ThreadIdle)
  /\ UNCHANGED <<connected, participants, sessions, logs, last, pre,
                 export_token, broadcasts, exported>>

\* The payload handle_send_message builds from the request.
PayloadOf(data) ==
  [from |-> GetOr(data, "from", <<>>),
   ciphertext |-> GetOr(data, "ciphertext", Null),
   iv |-> GetOr(data, "iv", Null),
   timestamp |-> GetOr(data, "timestamp", Null),
   envelopes |-> GetOr(data, "envelopes", <<>>)]

\* store_encrypted_log(payload)
SendLog(c) ==
  /\ At(c, "send_message", "log")
  /\ out' = <<>>
  /\ IF JsonSerializable(PayloadOf(threads[c].data))
     THEN /\ \E nonce \in Nonces, now \in Times :
               logs' = logs_append(logs,
                         store_encrypted_log(PayloadOf(threads[c].data), nonce, now))
          /\ Goto(c, [threads[c] EXCEPT !.pc = "emit"])
     ELSE /\ UNCHANGED logs
          /\ Goto(c, ThreadIdle)
  /\ UNCHANGED <<connected, participants, sessions, last, pre,
                 export_token, broadcasts, exported>>

\* socketio.emit("receive_message", payload)
SendEmit(c) ==
  /\ At(c, "send_message", "emit")
  /\ out' = <<EmitAll("receive_message", PayloadOf(threads[c].data))>>
  /\ broadcasts' = Append(broadcasts, PayloadOf(threads[c].data))
  /\ Goto(c, ThreadIdle)
  /\ UNCHANGED <<connected, participants, sessions, logs, last, pre,
                 export_token, exported>>

NextThreads ==
  \/ \E c \in Sids : ThreadConnect(c)
  \/ \E c \in Sids, data \in ThreadRegisterData : RegisterCheck(c, data)
  \/ \E c \in Sids, op \in {"leave_chat", "disconnect"} : RemoveCall(c, op)
  \/ \E c \in Sids : RemovePopSession(c)
  \/ \E c \in Sids : RemovePopRecord(c)
  \/ \E c \in Sids : RemoveEmitLeft(c)
  \/ \E c \in Sids : RemoveBroadcast(c)
  \/ \E c \in Sids : RegisterInstall(c)
  \/ \E c \in Sids : RegisterBind(c)
  \/ \E c \in Sids : RegisterEmitSuccess(c)
  \/ \E c \in Sids : RegisterEmitJoined(c)
  \/ \E c \in Sids : RegisterBroadcast(c)
  \/ \E c \in Sids, data \in ThreadSendData : SendCheckSender(c, data)
  \/ \E c \in Sids : SendValidate(c)
  \/ \E c \in Sids : SendReject(c)
  \/ \E c \in Sids : SendLog(c)
  \/ \E c \in Sids : SendEmit(c)

SpecThreads == Init /\ [][NextThreads]_vars

\* ================================================================== claims
\* Vocabulary of the claims, stated over the two registry maps and the
\* request in hand rather than through the handlers' own helper operators.

\* The key set of the envelopes a send_message request carries.
EnvelopeKeys(data) == IF "envelopes" \in DOMAIN data THEN DOMAIN data.envelopes ELSE {}

\* The sender a send_message request names (<<>> when it names none).
SenderOf(data) == IF "from" \in DOMAIN data THEN data.from ELSE <<>>

\* The events of one kind among the emitted ones.
Events(o, kind) == {i \in 1..Len(o) : o[i].event = kind}

\* ---------------------------------------------------------------------- C1
\* C1: the two registry maps are mutually consistent after every event:
\* sessions[c] = u exactly when participants[u] exists with sid c; no username
\* occurs twice in participants and no two connections hold the same username.
C1_RegistryConsistent ==
  /\ \A c \in DOMAIN sessions :
       \E i \in 1..Len(participants) :
         participants[i].username = sessions[c] /\ participants[i].sid = c
  /\ \A i \in 1..Len(participants) :
       /\ participants[i].sid \in DOMAIN sessions
       /\ sessions[participants[i].sid] = participants[i].username
  /\ \A i, j \in 1..Len(participants) :
       participants[i].username = participants[j].username => i = j
  /\ \A c, d \in DOMAIN sessions : sessions[c] = sessions[d] => c = d

\* A connection has just changed its username while another one is registered.
C1_Witness ==
  /\ last.op = "register"
  /\ Events(out, "user_left") # {}
  /\ Len(participants) = 2
  /\ Cardinality(DOMAIN sessions) = 2

\* ---------------------------------------------------------------------- C2
\* The request in hand is a send_message that was relayed.
Relayed ==
  /\ last.op = "send_message"
  /\ (Events(out, "receive_message") # {} \/ Len(logs) > Len(pre.logs))

\* C2 as stated: a message is relayed only if the key set of its envelopes
\* equals exactly the set of usernames registered at validation time.
C2_ExactKeySet == Relayed => EnvelopeKeys(last.data) = DictKeys(pre.participants)

\* C2 amended: a message is relayed only if the key set of its envelopes
\* contains every username registered at validation time (extra keys for
\* usernames that are not registered are accepted), and then it is both
\* broadcast and logged.
C2_CoversRegistered ==
  Relayed =>
    /\ DictKeys(pre.participants) \subseteq EnvelopeKeys(last.data)
    /\ {pre.sessions[c] : c \in DOMAIN pre.sessions} \subseteq EnvelopeKeys(last.data)
    /\ Events(out, "receive_message") # {}
    /\ Len(logs) = Len(pre.logs) + 1

\* A message was relayed although it carries an envelope for a username that
\* is not registered.
C2_Witness ==
  /\ Relayed
  /\ EnvelopeKeys(last.data) \ DictKeys(pre.participants) # {}
  /\ Len(pre.participants) > 0

\* ---------------------------------------------------------------------- C3
\* s lists the set S in strictly ascending code-point order.
AscendingListOf(s, S) ==
  /\ Len(s) = Cardinality(S)
  /\ {s[i] : i \in 1..Len(s)} = S
  /\ \A i, j \in 1..Len(s) : i < j => StrLess(s[i], s[j])

\* The registered usernames the request's envelopes do not cover.
MissingFor(data) == {pre.sessions[c] : c \in DOMAIN pre.sessions} \ EnvelopeKeys(data)

\* The request in hand is a send_message whose sender is the username the
\* calling connection holds.
SendFromBoundSender ==
  /\ last.op = "send_message"
  /\ SenderOf(last.data) # <<>>
  /\ last.sid \in DOMAIN pre.sessions
  /\ pre.sessions[last.sid] = SenderOf(last.data)

\* C3: a send_message from a sender registered on the calling connection whose
\* envelope keys lack a registered username is rejected: the only event is a
\* delivery_error to the caller whose message names exactly the missing
\* usernames in ascending order, and nothing is logged.
C3_MissingRejectedSorted ==
  (SendFromBoundSender /\ MissingFor(last.data) # {})
  =>
  /\ Len(out) = 1
  /\ out[1].event = "delivery_error"
  /\ out[1].to = {last.sid}
  /\ \E s \in [1..Cardinality(MissingFor(last.data)) -> MissingFor(last.data)] :
       /\ AscendingListOf(s, MissingFor(last.data))
       /\ out[1].payload.message = <<"Missing envelopes for: ">> \o JoinComma(s)
  /\ logs = pre.logs

\* A rejection that names two missing usernames.
C3_Witness ==
  /\ SendFromBoundSender
  /\ Cardinality(MissingFor(last.data)) = 2
  /\ Events(out, "delivery_error") # {}

\* ---------------------------------------------------------------------- C4
\* The usernames registered when the request in hand arrived.
RegisteredBefore == {pre.sessions[c] : c \in DOMAIN pre.sessions}

\* C4: a send_message from a sender registered on the calling connection whose
\* envelope key set equals the registered usernames always succeeds: exactly
\* one receive_message goes to every connection, the sender's included, and it
\* carries from, ciphertext, iv, timestamp and envelopes as supplied.
C4_ExactMatchAlwaysRelayed ==
  (SendFromBoundSender /\ EnvelopeKeys(last.data) = RegisteredBefore)
  =>
  /\ Len(out) = 1
  /\ out[1].event = "receive_message"
  /\ out[1].to = pre.connected
  /\ last.sid \in out[1].to
  /\ out[1].payload.from = last.data.from
  /\ out[1].payload.ciphertext = last.data.ciphertext
  /\ out[1].payload.iv = last.data.iv
  /\ out[1].payload.timestamp = last.data.timestamp
  /\ out[1].payload.envelopes = last.data.envelopes

\* ---------------------------------------------------------------------- C5
\* The request in hand is a send_message that the relay must reject: it names
\* no sender, or a sender the calling connection does not hold, or it lacks an
\* envelope for a registered username.
SendRejectCase ==
  /\ last.op = "send_message"
  /\ \/ SenderOf(last.data) = <<>>
     \/ ~SendFromBoundSender
     \/ MissingFor(last.data) # {}

\* C5: a rejected send_message emits one delivery_error, to the originating
\* connection only, emits no receive_message, and leaves the audit log and both
\* registry maps as they were.
C5_RejectedSendChangesNothing ==
  ((last.op = "send_message" /\ Events(out, "delivery_error") # {}) \/ SendRejectCase)
  =>
  /\ Len(out) = 1
  /\ out[1].event = "delivery_error"
  /\ out[1].to = {last.sid}
  /\ Events(out, "receive_message") = {}
  /\ logs = pre.logs
  /\ participants = pre.participants
  /\ sessions = pre.sessions

\* A send was rejected for a missing envelope while two connections are open.
C5_Witness ==
  /\ SendFromBoundSender
  /\ MissingFor(last.data) # {}
  /\ Events(out, "delivery_error") # {}
  /\ Cardinality(pre.connected) = 2

\* ---------------------------------------------------------------------- C6
\* No record of the registry binds username u to connection c.
NotOwnRecord(u, c) ==
  \A i \in 1..Len(pre.participants) :
    pre.participants[i].username = u => pre.participants[i].sid # c

\* C6: a send_message naming a sender that is not registered, or that is
\* registered to another connection, is rejected as sender-not-registered; the
\* sender of every relayed message is the username the sending connection held
\* at validation time.
C6_SenderIsCaller ==
  /\ (/\ last.op = "send_message"
      /\ SenderOf(last.data) # <<>>
      /\ NotOwnRecord(SenderOf(last.data), last.sid))
     =>
     /\ out = << [event |-> "delivery_error", to |-> {last.sid},
                  payload |-> [message |-> <<"Sender not registered.">>]] >>
     /\ logs = pre.logs
  /\ Relayed =>
       /\ last.sid \in DOMAIN pre.sessions
       /\ \A i \in Events(out, "receive_message") :
            out[i].payload.from = pre.sessions[last.sid]

\* A send naming a username that another connection holds was rejected.
C6_Witness ==
  /\ last.op = "send_message"
  /\ SenderOf(last.data) \in RegisteredBefore
  /\ NotOwnRecord(SenderOf(last.data), last.sid)
  /\ Events(out, "delivery_error") # {}

\* ---------------------------------------------------------------------- C7
\* The username a register request carries, as sent (<<>> when it carries none).
RawUsernameOf(data) == IF "username" \in DOMAIN data THEN data.username ELSE <<>>

\* The length of s without its leading and trailing whitespace.
TrimmedLen(s) ==
  LET ink == {i \in 1..Len(s) : ~IsSpace(s[i])}
  IN  IF ink = {} THEN 0
      ELSE (CHOOSE i \in ink : \A j \in ink : j <= i)
           - (CHOOSE i \in ink : \A j \in ink : i <= j) + 1

KeySupplied(data) == "public_key" \in DOMAIN data /\ data.public_key # <<>>

\* C7: register is rejected with a validation error sent to the caller when
\* the username is empty or shorter than 2 characters after trimming, or the
\* public key is absent (or empty); no record is installed.
C7_RegisterValidation ==
  (/\ last.op = "register"
   /\ (TrimmedLen(RawUsernameOf(last.data)) < 2 \/ ~KeySupplied(last.data)))
  =>
  /\ Len(out) = 1
  /\ out[1].event = "register_error"
  /\ out[1].to = {last.sid}
  /\ out[1].payload.message =
       IF TrimmedLen(RawUsernameOf(last.data)) = 0 \/ ~KeySupplied(last.data)
       THEN <<"Username and public key are required.">>
       ELSE <<"Username must be at least 2 characters.">>
  /\ participants = pre.participants
  /\ sessions = pre.sessions

\* A one-character username (after trimming) with a key was rejected.
C7_Witness ==
  /\ last.op = "register"
  /\ TrimmedLen(RawUsernameOf(last.data)) = 1
  /\ Len(RawUsernameOf(last.data)) = 2
  /\ KeySupplied(last.data)
  /\ Events(out, "register_error") # {}

\* ---------------------------------------------------------------------- C8
\* The username a register request asks for (after trimming).
WantedName == Strip(RawUsernameOf(last.data))

\* The connections other than c that held username u when the request arrived.
OtherHolders(u, c) ==
  {pre.participants[i].sid : i \in {j \in 1..Len(pre.participants) :
      pre.participants[j].username = u /\ pre.participants[j].sid # c}}

InUseError(c) ==
  [event |-> "register_error", to |-> {c},
   payload |-> [message |-> <<"That username is already in use.">>]]

\* C8: register of a username bound to a different connection is rejected (as
\* username-in-use once the request passes field validation) and the holder's
\* record and session stay as they were; register of the username the calling
\* connection itself holds is never answered with username-in-use and, with a
\* decodable key, succeeds.
C8_UsernameInUse ==
  last.op = "register" =>
    /\ OtherHolders(WantedName, last.sid) # {} =>
         /\ Len(out) = 1
         /\ out[1].event = "register_error"
         /\ out[1].to = {last.sid}
         /\ KeySupplied(last.data) => out = <<InUseError(last.sid)>>
         /\ \A i \in 1..Len(pre.participants) :
              pre.participants[i].username = WantedName =>
                /\ i <= Len(participants)
                /\ participants[i] = pre.participants[i]
                /\ pre.participants[i].sid \in DOMAIN sessions
                /\ sessions[pre.participants[i].sid] = WantedName
    /\ (/\ last.sid \in DOMAIN pre.sessions
        /\ pre.sessions[last.sid] = WantedName) =>
         /\ \A i \in 1..Len(out) : out[i] # InUseError(last.sid)
         /\ (KeySupplied(last.data) /\ B64Valid(last.data.public_key)) =>
              /\ Events(out, "register_error") = {}
              /\ Events(out, "register_success") # {}
              /\ sessions[last.sid] = WantedName

\* A complete register request for a username another connection holds.
C8_Witness ==
  /\ last.op = "register"
  /\ KeySupplied(last.data)
  /\ OtherHolders(WantedName, last.sid) # {}
  /\ out = <<InUseError(last.sid)>>

\* ---------------------------------------------------------------------- C9
\* C9: a rejected register (missing fields, username too short, username in
\* use) leaves both registry maps and the audit log as they were and emits
\* nothing but the error: no user_left, user_joined or participants event; the
\* calling connection keeps the username it held.
C9_RejectedRegisterChangesNothing ==
  (last.op = "register" /\ Events(out, "register_error") # {})
  =>
  /\ participants = pre.participants
  /\ sessions = pre.sessions
  /\ logs = pre.logs
  /\ Events(out, "user_left") = {}
  /\ Events(out, "user_joined") = {}
  /\ Events(out, "participants") = {}
  /\ Events(out, "register_success") = {}
  /\ last.sid \in DOMAIN pre.sessions =>
       /\ last.sid \in DOMAIN sessions
       /\ sessions[last.sid] = pre.sessions[last.sid]
       /\ sessions[last.sid] \in DictKeys(participants)

\* A connection that holds a username had a register request rejected.
C9_Witness ==
  /\ last.op = "register"
  /\ Events(out, "register_error") # {}
  /\ last.sid \in DOMAIN pre.sessions
  /\ Len(pre.participants) = 2

\* --------------------------------------------------------------------- C10
\* The usernames an emitted event mentions, in its point payload or snapshot.
SnapshotNames(snap) == {snap[i].username : i \in 1..Len(snap)}

NamesIn(e) ==
  CASE e.event \in {"user_left", "user_joined"} -> {e.payload.username}
    [] e.event = "register_success" ->
         {e.payload.username} \cup SnapshotNames(e.payload.participants)
    [] e.event = "participants" -> SnapshotNames(e.payload.participants)
    [] OTHER -> {}

\* The request in hand is a successful register by a connection that held
\* another username.
Renamed ==
  /\ last.op = "register"
  /\ Events(out, "register_success") # {}
  /\ last.sid \in DOMAIN pre.sessions
  /\ pre.sessions[last.sid] # WantedName

\* C10: when a connection registered as A successfully registers as B # A, a
\* user_left for A is emitted and a snapshot without A (and without B) goes
\* out before any event or snapshot mentions B; afterwards A is gone from the
\* registry and the connection is bound to B only.
C10_LeaveBeforeJoin ==
  Renamed =>
    LET A == pre.sessions[last.sid]
        B == WantedName
    IN  /\ \E i \in Events(out, "user_left") :
             /\ out[i].payload.username = A
             /\ \A j \in 1..Len(out) : B \in NamesIn(out[j]) => i < j
             /\ \E k \in Events(out, "participants") :
                  /\ i < k
                  /\ A \notin NamesIn(out[k])
                  /\ B \notin NamesIn(out[k])
                  /\ \A j \in 1..Len(out) : B \in NamesIn(out[j]) => k < j
             /\ \A j \in 1..Len(out) : j > i => A \notin NamesIn(out[j])
        /\ A \notin DictKeys(participants)
        /\ B \in DictKeys(participants)
        /\ sessions[last.sid] = B
        /\ \A i \in 1..Len(participants) :
             participants[i].sid = last.sid => participants[i].username = B

\* A rename happened while another participant was registered.
C10_Witness ==
  /\ Renamed
  /\ Len(pre.participants) = 2
  /\ Len(participants) = 2

\* --------------------------------------------------------------------- C11
\* A leave_chat or disconnect request.
Departure == last.op \in {"leave_chat", "disconnect"}

\* The registry with the one record of username u taken out.
Without(d, u) == SelectSeq(d, LAMBDA it : it.username # u)

\* C11: removal is idempotent. A leave_chat or disconnect of a connection
\* that holds a session entry deletes that entry and the identity record of
\* its username, and nothing else; a leave_chat or disconnect of a connection
\* without a session entry (it never registered, or it has left already)
\* changes no state and emits no event; and applying the removal a second time
\* to any reachable registry gives the registry of the first application and
\* no event.
C11_RemoveIdempotent ==
  /\ Departure =>
       IF last.sid \in DOMAIN pre.sessions
       THEN /\ DOMAIN sessions = DOMAIN pre.sessions \ {last.sid}
            /\ \A c \in DOMAIN sessions : sessions[c] = pre.sessions[c]
            /\ participants = Without(pre.participants, pre.sessions[last.sid])
            /\ Len(participants) = Len(pre.participants) - 1
       ELSE /\ participants = pre.participants
            /\ sessions = pre.sessions
            /\ logs = pre.logs
            /\ out = <<>>
  /\ \A c \in Sids :
       LET once == remove_participant(
                     [participants |-> participants, sessions |-> sessions,
                      out |-> <<>>], c)
           twice == remove_participant([once EXCEPT !.out = <<>>], c)
       IN  /\ twice.participants = once.participants
           /\ twice.sessions = once.sessions
           /\ twice.out = <<>>

\* A registered connection leaves while another participant stays.
C11_Witness ==
  /\ last.op = "leave_chat"
  /\ last.sid \in DOMAIN pre.sessions
  /\ Len(pre.participants) = 2
  /\ Len(participants) = 1
  /\ last.sid \notin DOMAIN sessions

\* --------------------------------------------------------------------- C12
\* l is an initial part of m, entry for entry.
IsPrefix(l, m) ==
  /\ Len(l) <= Len(m)
  /\ \A i \in 1..Len(l) :
       /\ m[i].nonce = l[i].nonce
       /\ m[i].ciphertext = l[i].ciphertext

\* C12: the audit log is append-only: whatever the request in hand, the log
\* its handler found is an initial part of the log it leaves: no entry moved,
\* none changed its nonce or ciphertext, and the length did not decrease.
C12_AppendOnly == last # Idle => IsPrefix(pre.logs, logs)

\* An entry is appended to a log that already holds a different one.
C12_Witness ==
  /\ last.op = "send_message"
  /\ Len(pre.logs) = 1
  /\ Len(logs) = 2
  /\ logs[2] # logs[1]

\* --------------------------------------------------------------------- C13
\* The fields a relayed payload carries.
PayloadFields == {"from", "ciphertext", "iv", "timestamp", "envelopes"}

\* What the log reader recovers from one entry with the process key.
Opened(entry) == decrypt_entries(<<entry>>, LOG_KEY)

\* C13: the audit log holds as many entries as receive_message broadcasts
\* were emitted. A request that broadcasts a receive_message broadcasts one,
\* to all connections, and appends exactly one entry, which opens to the
\* fields of the broadcast payload; every other request (register, leave,
\* disconnect, key request, log export, rejected send) leaves the log as it
\* found it.
C13_EntriesEqualBroadcasts ==
  /\ Len(logs) = Len(broadcasts)
  /\ last # Idle =>
       IF Events(out, "receive_message") # {}
       THEN /\ last.op = "send_message"
            /\ Cardinality(Events(out, "receive_message")) = 1
            /\ Len(logs) = Len(pre.logs) + 1
            /\ ~Opened(logs[Len(logs)]).raised
            /\ \A i \in Events(out, "receive_message") :
                 /\ out[i].to = pre.connected
                 /\ \A f \in PayloadFields :
                      Opened(logs[Len(logs)]).payloads[1][f] = out[i].payload[f]
       ELSE logs = pre.logs

\* A second message is relayed and logged.
C13_Witness ==
  /\ last.op = "send_message"
  /\ Events(out, "receive_message") # {}
  /\ Len(logs) = 2
  /\ Len(broadcasts) = 2

\* --------------------------------------------------------------------- C15
\* C15: the audit log round-trips: decrypting the log with the process key,
\* as decrypt_entries does, raises nothing and yields one payload per
\* broadcast, in the order of the broadcasts; each has the fields from,
\* ciphertext, iv, timestamp and envelopes of the broadcast payload, with
\* their values, and one more field, stored_at.
C15_LogRoundTrip ==
  LET opened == decrypt_entries(logs, LOG_KEY)
  IN  /\ ~opened.raised
      /\ Len(opened.payloads) = Len(broadcasts)
      /\ \A i \in 1..Len(broadcasts) :
           /\ DOMAIN opened.payloads[i] = PayloadFields \cup {"stored_at"}
           /\ DOMAIN broadcasts[i] = PayloadFields
           /\ \A f \in PayloadFields : opened.payloads[i][f] = broadcasts[i][f]
           /\ opened.payloads[i].stored_at \in Times

\* Two different payloads are in the log.
C15_Witness ==
  /\ Len(logs) = 2
  /\ Len(broadcasts) = 2
  /\ broadcasts[1] # broadcasts[2]
  /\ last.op = "send_message"

\* --------------------------------------------------------------------- C14
\* A send whose sender is bound to the caller and whose envelopes cover every
\* registered username, and whose audit-log append failed.
ValidatedButNotLogged ==
  /\ last.op = "send_message"
  /\ SendFromBoundSender
  /\ MissingFor(last.data) = {}
  /\ last.raised
  /\ logs = pre.logs

\* C14: a failed audit-log append does not block delivery: a validated
\* message whose append failed is still broadcast, as one receive_message to
\* every connection.
C14_FailedAppendStillDelivers ==
  ValidatedButNotLogged =>
    \E i \in Events(out, "receive_message") : out[i].to = pre.connected

\* --------------------------------------------------------------------- C16
\* The request in hand is a GET /logs.
Export == last.op = "get_logs"

\* An export token is configured: LOG_EXPORT_TOKEN is set to a non-empty text.
TokenConfigured == export_token.set /\ export_token.v # ""

\* The caller supplied the configured token in X-Log-Token.
TokenMatches == last.data.token.set /\ last.data.token.v = export_token.v

\* The one response of the request in hand.
Response == out[1].payload

\* C16: a log export answers 401 Unauthorized, with no entries in the body,
\* exactly when an export token is configured and the caller's token is not
\* that token (none supplied included); when no token is configured or the
\* tokens match it answers 200 with all entries of the log, in order. In
\* both cases the log, the registry and the sessions are as before.
C16_ExportAuthorization ==
  Export =>
    /\ Len(out) = 1
    /\ out[1].event = "http_response"
    /\ IF TokenConfigured /\ ~TokenMatches
       THEN /\ Response.status = 401
            /\ "entries" \notin DOMAIN Response
       ELSE /\ Response.status = 200
            /\ Entries(Response.entries) = pre.logs
    /\ logs = pre.logs
    /\ participants = pre.participants
    /\ sessions = pre.sessions

\* A token is configured, the caller sends none, and the log is not empty.
C16_Witness ==
  /\ Export
  /\ TokenConfigured
  /\ ~last.data.token.set
  /\ Len(logs) >= 1
  /\ Response.status = 401

\* --------------------------------------------------------------------- C17
\* C17: what an export returned is a copy of the log as of the call: however
\* many entries are appended afterwards, the reader of the result sees the
\* entries the log held at the call, no more, and these are an initial part
\* of the log.
C17_ExportIsPrefixCopy ==
  /\ Len(Entries(exported.result)) = exported.len
  /\ IsPrefix(Entries(exported.result), logs)
  /\ (Export /\ Response.status = 200) => Entries(Response.entries) = pre.logs

\* An entry is appended after an export returned a non-empty log.
C17_Witness ==
  /\ last.op = "send_message"
  /\ exported.len = 1
  /\ Len(pre.logs) = 1
  /\ Len(logs) = 2

\* --------------------------------------------------------------------- C18
\* The request in hand is a request_public_key.
KeyRequest == last.op = "request_public_key"

\* The username a request_public_key names (<<>> when it names none).
AskedName == IF "username" \in DOMAIN last.data THEN last.data.username ELSE <<>>

\* The records of the registry the handler found under the asked name.
AskedRecords ==
  {i \in 1..Len(pre.participants) : pre.participants[i].username = AskedName}

\* The state is as the handler found it.
NothingChanged ==
  /\ participants = pre.participants
  /\ sessions = pre.sessions
  /\ logs = pre.logs
  /\ connected = pre.connected

\* The answer of a request_public_key: one public_key event to the caller.
AnsweredToCaller ==
  /\ Len(out) = 1
  /\ out[1].event = "public_key"
  /\ out[1].to = {last.sid}

\* C18 as stated: a registered username is answered with that username and
\* the stored public key and fingerprint; an unknown username is answered
\* with username null and public key null; no state is changed.
C18_UnknownAnsweredNull ==
  KeyRequest =>
    /\ AnsweredToCaller
    /\ NothingChanged
    /\ \A i \in AskedRecords :
         /\ out[1].payload.username = Some(AskedName)
         /\ out[1].payload.public_key = Some(pre.participants[i].public_key)
         /\ out[1].payload.fingerprint = Some(pre.participants[i].fingerprint)
    /\ AskedRecords = {} =>
         /\ out[1].payload.username = None
         /\ out[1].payload.public_key = None

\* C18, amended: a registered username is answered with that username and
\* the stored public key and fingerprint; a username that is not registered
\* is answered with that username, public key null and fingerprint null; a
\* request without a username (or with an empty one) is answered with
\* username null and public key null; no state is changed.
C18_UnknownEchoed ==
  KeyRequest =>
    /\ AnsweredToCaller
    /\ NothingChanged
    /\ \A i \in AskedRecords :
         /\ out[1].payload.username = Some(AskedName)
         /\ out[1].payload.public_key = Some(pre.participants[i].public_key)
         /\ out[1].payload.fingerprint = Some(pre.participants[i].fingerprint)
    /\ (AskedRecords = {} /\ AskedName # <<>>) =>
         /\ out[1].payload.username = Some(AskedName)
         /\ out[1].payload.public_key = None
         /\ out[1].payload.fingerprint = None
    /\ AskedName = <<>> =>
         /\ DOMAIN out[1].payload = {"username", "public_key"}
         /\ out[1].payload.username = None
         /\ out[1].payload.public_key = None

\* A username nobody holds is asked for while another one is registered.
C18_Witness ==
  /\ KeyRequest
  /\ AskedName # <<>>
  /\ AskedRecords = {}
  /\ Len(pre.participants) >= 1
  /\ out[1].payload.username = Some(AskedName)
  /\ out[1].payload.public_key = None

\* --------------------------------------------------------------------- C19
\* The usernames the sessions map binds.
BoundNames == {sessions[c] : c \in DOMAIN sessions}

\* The snapshot of the registry as it stands.
Snapshot == participant_snapshot(participants)

\* C19: the snapshot of the registry has exactly one element per registered
\* username, carrying the fingerprint and the public key of that username's
\* record (so nothing for a username that was removed), and its elements are
\* in non-decreasing order of lower-cased username.
C19_SnapshotExactAndOrdered ==
  /\ {Snapshot[i].username : i \in 1..Len(Snapshot)} = BoundNames
  /\ Len(Snapshot) = Cardinality(BoundNames)
  /\ \A i \in 1..Len(Snapshot) :
       /\ DOMAIN Snapshot[i] = {"username", "fingerprint", "public_key"}
       /\ \E j \in 1..Len(participants) :
            /\ participants[j].username = Snapshot[i].username
            /\ participants[j].fingerprint = Snapshot[i].fingerprint
            /\ participants[j].public_key = Snapshot[i].public_key
  /\ \A i, j \in 1..Len(Snapshot) :
       i < j => ~StrLess(Lower(Snapshot[j].username), Lower(Snapshot[i].username))

\* "Ba" and "ab" are registered, "Ba" first: code-point order and insertion
\* order both put "Ba" first, lower-cased order puts "ab" first; one user
\* has left before.
C19_Witness ==
  /\ Len(participants) = 2
  /\ participants[1].username = <<"B", "a">>
  /\ participants[2].username = <<"a", "b">>
  /\ Snapshot[1].username = <<"a", "b">>
  /\ last.op = "register"
  /\ Len(out) = 5

\* --------------------------------------------------------------------- C20
\* The register in hand succeeded.
RegisterSucceeded ==
  /\ last.op = "register"
  /\ Events(out, "register_success") # {}

\* The leave_chat or disconnect in hand removed a record.
DepartureRemoved ==
  /\ Departure
  /\ last.sid \in DOMAIN pre.sessions
  /\ Len(participants) < Len(pre.participants)

\* The last event emitted is the participants snapshot of the registry as it
\* stands, sent to every connection.
SnapshotBroadcastLast ==
  /\ Len(out) >= 1
  /\ out[Len(out)].event = "participants"
  /\ out[Len(out)].to = pre.connected
  /\ out[Len(out)].payload.participants = Snapshot

\* C20: every successful register and every leave_chat or disconnect that
\* removed a record ends with a participants snapshot of the registry as it
\* then stands, sent to all connections, and emits a point event with the
\* username and fingerprint concerned: user_joined, to every connection but
\* the registering one, after a register; user_left, to every connection
\* but the departing one, after a departure.
C20_PresenceAnnounced ==
  /\ RegisterSucceeded =>
       /\ SnapshotBroadcastLast
       /\ \E i \in Events(out, "user_joined") :
            /\ out[i].to = pre.connected \ {last.sid}
            /\ out[i].payload.username = sessions[last.sid]
            /\ \E j \in 1..Len(participants) :
                 /\ participants[j].username = sessions[last.sid]
                 /\ participants[j].fingerprint = out[i].payload.fingerprint
  /\ DepartureRemoved =>
       /\ SnapshotBroadcastLast
       /\ \E i \in Events(out, "user_left") :
            /\ out[i].to = pre.connected \ {last.sid}
            /\ out[i].payload.username = pre.sessions[last.sid]
            /\ \E j \in 1..Len(pre.participants) :
                 /\ pre.participants[j].username = pre.sessions[last.sid]
                 /\ pre.participants[j].fingerprint = out[i].payload.fingerprint

\* A registered connection disconnects while another registered one stays.
C20_Witness ==
  /\ last.op = "disconnect"
  /\ DepartureRemoved
  /\ Len(participants) = 1
  /\ \E i \in Events(out, "user_left") : out[i].to # {}
  /\ SnapshotBroadcastLast

\* --------------------------------------------------------------------- C21
\* No handler thread is in flight.
Quiescent == \A c \in Sids : threads[c].pc = "idle"

\* C21: registrations racing for one username leave a single owner: once the
\* handlers have returned, no two connections are bound to the same username
\* and every bound username has its record, owned by the connection bound to
\* it (so the disconnect of a connection that lost the race finds nothing of
\* the winner's to remove).
C21_RacingRegistrationsOneOwner ==
  Quiescent =>
    /\ \A c1, c2 \in DOMAIN sessions : sessions[c1] = sessions[c2] => c1 = c2
    /\ \A c \in DOMAIN sessions :
         \E i \in 1..Len(participants) :
           /\ participants[i].username = sessions[c]
           /\ participants[i].sid = c

\* --------------------------------------------------------------------- C22
\* The sender a thread's send_message names.
ThreadSender(c) == SenderOf(threads[c].data)

\* C22: the sender check and the envelope check of one relay attempt observe
\* one registry state. A send that passed both checks has its sender in the
\* username set its envelopes were validated against, and a send rejected for
\* missing envelopes is rejected only for usernames that were registered in
\* the state its sender check saw.
C22_OneRegistryStatePerRelay ==
  \A c \in Sids :
    /\ (threads[c].op = "send_message" /\ threads[c].pc \in {"log", "emit"}) =>
         ThreadSender(c) \in threads[c].expected
    /\ (threads[c].op = "send_message" /\ threads[c].pc = "reject") =>
         threads[c].missing \subseteq threads[c].seen

\* --------------------------------------------------------------------- C23
\* C23: no registration takes effect between a relay's envelope validation
\* and its broadcast: every receive_message that is emitted has an envelope
\* for every username registered at the moment of the emission.
C23_BroadcastCoversRegistered ==
  \A i \in Events(out, "receive_message") :
    DictKeys(participants) \subseteq DOMAIN out[i].payload.envelopes

\* --------------------------------------------------------------------- C24
\* The payload the log reader recovers from entry i of the log.
LoggedPayload(i) == Opened(logs[i]).payloads[1]

\* C24: audit-log insertion order equals relay order: the k-th
\* receive_message broadcast carries the payload of the k-th entry of the
\* log, for every broadcast emitted so far.
C24_LogOrderIsRelayOrder ==
  \A k \in 1..Len(broadcasts) :
    /\ k <= Len(logs)
    /\ \A f \in PayloadFields : LoggedPayload(k)[f] = broadcasts[k][f]

\* --------------------------------------------------------------------- C25
\* The usernames in the participants snapshot of an emitted event.
SnapshotOf(e) == {e.payload.participants[i].username :
                    i \in 1..Len(e.payload.participants)}

\* The usernames whose record a register thread has installed without having
\* emitted its user_joined yet.
JoinPending ==
  {threads[c].username : c \in {d \in Sids : threads[d].op = "register" /\
                                  threads[d].pc \in {"bind", "success", "joined"}}}

\* The usernames whose record a thread has popped without having emitted its
\* user_left yet.
LeftPending ==
  {threads[c].left : c \in {d \in Sids : threads[d].pc = "emit_left"}}

\* C25: no participants snapshot is broadcast that already includes a
\* username whose user_joined has not been emitted yet, or already omits a
\* username whose user_left has not been emitted yet.
C25_PointEventBeforeSnapshot ==
  \A i \in Events(out, "participants") :
    /\ SnapshotOf(out[i]) \cap JoinPending = {}
    /\ LeftPending \subseteq SnapshotOf(out[i])

\* --------------------------------------------------------------------- C26
\* The public key a register request carries.
KeyOf(data) == IF "public_key" \in DOMAIN data THEN data.public_key ELSE <<>>

\* A connection successfully re-registers the username it holds with a key
\* that is not the one of its record.
Rekeyed ==
  /\ RegisterSucceeded
  /\ last.sid \in DOMAIN pre.sessions
  /\ pre.sessions[last.sid] = WantedName
  /\ \E i \in 1..Len(pre.participants) :
       /\ pre.participants[i].username = WantedName
       /\ pre.participants[i].public_key # KeyOf(last.data)

\* C26: re-registering the held username with a new key replaces the record
\* atomically: the record carries the new key afterwards, every snapshot
\* emitted on the way lists the username, and no user_left names it.
C26_RekeyIsAtomic ==
  Rekeyed =>
    /\ \E i \in 1..Len(participants) :
         /\ participants[i].username = WantedName
         /\ participants[i].public_key = KeyOf(last.data)
    /\ \A i \in Events(out, "participants") : WantedName \in SnapshotOf(out[i])
    /\ \A i \in Events(out, "user_left") : out[i].payload.username # WantedName

\* --------------------------------------------------------------------- C27
\* A register that passes the field, length and uniqueness checks with a
\* public key that base64 does not decode.
UndecodableKeyRegister ==
  /\ last.op = "register"
  /\ TrimmedLen(RawUsernameOf(last.data)) >= 2
  /\ KeyOf(last.data) # <<>>
  /\ OtherHolders(WantedName, last.sid) = {}
  /\ ~B64Valid(KeyOf(last.data))

\* C27: a register whose public key is not valid base64 ends in a structured
\* rejection to the caller and changes nothing: one register_error goes to
\* the originating connection, no presence event is emitted, no record is
\* installed and the username the connection held stays registered.
C27_UndecodableKeyRejected ==
  UndecodableKeyRegister =>
    /\ Len(out) = 1
    /\ out[1].event = "register_error"
    /\ out[1].to = {last.sid}
    /\ participants = pre.participants
    /\ sessions = pre.sessions

\* --------------------------------------------------------------------- C28
\* The registries holding the records of d in any order of registration.
Reorderings(d) ==
  {[i \in 1..Len(d) |-> d[f[i]]] :
     f \in {g \in [1..Len(d) -> 1..Len(d)] :
              \A i, j \in 1..Len(d) : g[i] = g[j] => i = j}}

\* C28: the snapshot is a function of the set of records: a registry holding
\* the records of the present one, registered in any other order, has the
\* same snapshot.
C28_SnapshotIgnoresOrder ==
  \A d \in Reorderings(participants) : participant_snapshot(d) = Snapshot

\* --------------------------------------------------------------------- C29
\* The usernames registered when the handler started.
RegisteredNames == {pre.participants[i].username : i \in 1..Len(pre.participants)}

RejectedAsNotRegistered ==
  /\ out = << [event |-> "delivery_error", to |-> {last.sid},
               payload |-> [message |-> <<"Sender not registered.">>]] >>
  /\ logs = pre.logs

\* C30: a connection sends only under the username it holds now: a
\* send_message naming a sender that the sessions map does not bind to the
\* calling connection (the connection re-registered under another name,
\* left, or never held it) is rejected as sender-not-registered, whoever
\* else holds that username; a send naming the username the connection holds
\* is not rejected on that ground.
C30_SendOnlyUnderCurrentName ==
  (last.op = "send_message" /\ SenderOf(last.data) # <<>>) =>
    IF last.sid \in DOMAIN pre.sessions /\ pre.sessions[last.sid] = SenderOf(last.data)
    THEN \A i \in Events(out, "delivery_error") :
           out[i].payload.message # <<"Sender not registered.">>
    ELSE RejectedAsNotRegistered

\* A connection bound to one username sends under another username, which
\* another connection holds.
C30_Witness ==
  /\ last.op = "send_message"
  /\ last.sid \in DOMAIN pre.sessions
  /\ pre.sessions[last.sid] # SenderOf(last.data)
  /\ \E c \in DOMAIN pre.sessions : c # last.sid /\ pre.sessions[c] = SenderOf(last.data)
  /\ RejectedAsNotRegistered

====
